---- MODULE Spec2Model ----
(***************************************************************************)
(* State-machine model of the cw20 warp route contract (TokenBridge) of    *)
(* contracts/warp/cw20/src/contract.rs: instantiate, execute (Router,      *)
(* Handle, Receive) and reply, run by a host that commits the storage      *)
(* writes of an invocation only when it returns Ok.                        *)
(***************************************************************************)
EXTENDS Integers, Sequences, FiniteSets, TLC

\* ---------------------------------------------------------------- bounds
MaxAmount == 2          \* token amounts are 1..MaxAmount
MaxDomain == 2          \* domain identifiers are 1..MaxDomain

\* ------------------------------------------------------------- constants
REPLY_ID_CREATE_DENOM == 0

None == "<none>"                    \* an absent storage item / Option::None
BadAddr == "NOT-AN-ADDRESS"         \* a string addr_validate rejects
ContractAddr == "warp"              \* env.contract.address
Addrs == {"owner", "mailbox", "cw20", "eve"}
Hrps == {"osmo", "neutron"}
Routers == {"r1", "r2"}             \* remote router addresses (HexBinary)
Recipients == {"x1", "x2"}          \* 32-byte recipients (HexBinary)
Domains == 1..MaxDomain
Amounts == 1..MaxAmount
Bridged == "Bridged"
Collateral == "Collateral"

VARIABLES storage,   \* the contract's persisted items
          pending,   \* the submessages the host has still to run: <<>> or <<m>>
          call,      \* the last invocation: entry point, sender, message
          resp       \* its result: err ("Ok" on success) and emitted messages

vars == <<storage, pending, call, resp>>

\* Storage of a contract that has not been instantiated.
EmptyStorage ==
    [HRP |-> None, MODE |-> None, MAILBOX |-> None, TOKEN |-> None,
     OWNER |-> None, ROUTES |-> [d \in Domains |-> None]]

Err(e, s) == [err |-> e, messages |-> <<>>, storage |-> s]
Ok(msgs, s) == [err |-> "Ok", messages |-> msgs, storage |-> s]

\* deps.api.addr_validate
addr_validate(a) == a \in Addrs

\* ------------------------------------------------------ wire conversions
\* warp::Message -> HexBinary: recipient, amount, then the metadata bytes.
EncodeWarpMessage(m) == <<m.recipient, m.amount>> \o m.metadata

\* HexBinary -> warp::Message; a body shorter than recipient+amount has no
\* decoding.
WarpMessageDecodable(b) == Len(b) >= 2

DecodeWarpMessage(b) ==
    [recipient |-> b[1], amount |-> b[2], metadata |-> SubSeq(b, 3, Len(b))]

\* bech32_encode(hrp, raw): the chain-native address of raw bytes under hrp.
bech32_encode(hrp, raw) == <<hrp, "1", raw>>

\* hpl_router::get_route: the DomainRouteSet of a domain; route is None when
\* no router was set for it.
get_route(s, domain) == [domain |-> domain, route |-> s.ROUTES[domain]]

\* conv::to_burn_msg / to_mint_msg / to_send_msg: cw20 execute messages
\* addressed to the token contract.
to_burn_msg(token, amount) ==
    [kind |-> "burn", contract_addr |-> token, amount |-> amount]

to_mint_msg(token, recipient, amount) ==
    [kind |-> "mint", contract_addr |-> token, recipient |-> recipient,
     amount |-> amount]

to_send_msg(token, recipient, amount) ==
    [kind |-> "transfer", contract_addr |-> token, recipient |-> recipient,
     amount |-> amount]

\* mailbox::dispatch: an execute message to the mailbox contract.
dispatch(mailbox, dest_domain, recipient_addr, msg_body) ==
    [kind |-> "dispatch", contract_addr |-> mailbox,
     dest_domain |-> dest_domain, recipient_addr |-> recipient_addr,
     msg_body |-> msg_body]

\* ------------------------------------------------------------ instantiate
\* instantiate with Collateral's TOKEN.save left out.
instantiate_NoTokenSave(s, msg) ==
    IF ~addr_validate(msg.owner) \/ ~addr_validate(msg.mailbox)
    THEN Err("InvalidAddr", s)
    ELSE LET s1 == [s EXCEPT !.HRP = msg.hrp, !.MODE = msg.token.mode,
                             !.MAILBOX = msg.mailbox, !.OWNER = msg.owner]
         IN  IF msg.token.mode = Bridged
             THEN Ok(<<[kind |-> "instantiate", reply_on |-> "success",
                        id |-> REPLY_ID_CREATE_DENOM, admin |-> ContractAddr,
                        code_id |-> msg.token.code_id,
                        label |-> "token warp cw20"]>>, s1)
             ELSE IF ~addr_validate(msg.token.address)
                  THEN Err("InvalidAddr", s1)
                  ELSE Ok(<<>>, s1)

\* instantiate that stores a default token address in Bridged mode.
instantiate_DefaultToken(s, msg) ==
    IF ~addr_validate(msg.owner) \/ ~addr_validate(msg.mailbox)
    THEN Err("InvalidAddr", s)
    ELSE LET s1 == [s EXCEPT !.HRP = msg.hrp, !.MODE = msg.token.mode,
                             !.MAILBOX = msg.mailbox, !.OWNER = msg.owner]
         IN  IF msg.token.mode = Bridged
             THEN Ok(<<[kind |-> "instantiate", reply_on |-> "success",
                        id |-> REPLY_ID_CREATE_DENOM, admin |-> ContractAddr,
                        code_id |-> msg.token.code_id,
                        label |-> "token warp cw20"]>>,
                     [s1 EXCEPT !.TOKEN = ContractAddr])
             ELSE IF ~addr_validate(msg.token.address)
                  THEN Err("InvalidAddr", s1)
                  ELSE Ok(<<>>, [s1 EXCEPT !.TOKEN = msg.token.address])

\* instantiate whose submessage asks for the reply on every outcome.
instantiate_ReplyAlways(s, msg) ==
    IF ~addr_validate(msg.owner) \/ ~addr_validate(msg.mailbox)
    THEN Err("InvalidAddr", s)
    ELSE LET s1 == [s EXCEPT !.HRP = msg.hrp, !.MODE = msg.token.mode,
                             !.MAILBOX = msg.mailbox, !.OWNER = msg.owner]
         IN  IF msg.token.mode = Bridged
             THEN Ok(<<[kind |-> "instantiate", reply_on |-> "always",
                        id |-> REPLY_ID_CREATE_DENOM, admin |-> ContractAddr,
                        code_id |-> msg.token.code_id,
                        label |-> "token warp cw20"]>>, s1)
             ELSE IF ~addr_validate(msg.token.address)
                  THEN Err("InvalidAddr", s1)
                  ELSE Ok(<<>>, [s1 EXCEPT !.TOKEN = msg.token.address])

\* instantiate: validates owner and mailbox, saves HRP, MODE, MAILBOX and the
\* owner, then either requests the sub-instantiation of the cw20 (Bridged)
\* or validates and saves the given token address (Collateral).
instantiate(s, msg) ==
    IF ~addr_validate(msg.owner) \/ ~addr_validate(msg.mailbox)
    THEN Err("InvalidAddr", s)
    ELSE LET s1 == [s EXCEPT !.HRP = msg.hrp, !.MODE = msg.token.mode,
                             !.MAILBOX = msg.mailbox, !.OWNER = msg.owner]
         IN  IF msg.token.mode = Bridged
             THEN Ok(<<[kind |-> "instantiate", reply_on |-> "success",
                        id |-> REPLY_ID_CREATE_DENOM, admin |-> ContractAddr,
                        code_id |-> msg.token.code_id,
                        label |-> "token warp cw20"]>>, s1)
             ELSE IF ~addr_validate(msg.token.address)
                  THEN Err("InvalidAddr", s1)
                  ELSE Ok(<<>>, [s1 EXCEPT !.TOKEN = msg.token.address])

\* ------------------------------------------------------------------ reply
\* cw_utils::parse_instantiate_response_data: the data of an instantiate
\* response is the protobuf field tag followed by the new contract's address.
InstantiateResponseParsable(data) == Len(data) = 2 /\ data[1] = "addr:"

parse_instantiate_response_data(data) == [contract_address |-> data[2]]

\* reply that accepts every callback identifier.
reply_AnyId(s, msg) ==
    IF ~msg.result.is_ok \/ msg.result.data = <<>>
    THEN Err("Panic", s)
    ELSE IF ~InstantiateResponseParsable(msg.result.data[1])
    THEN Err("ParseErr", s)
    ELSE LET init_resp == parse_instantiate_response_data(msg.result.data[1])
         IN  IF ~addr_validate(init_resp.contract_address)
             THEN Err("InvalidAddr", s)
             ELSE Ok(<<>>, [s EXCEPT !.TOKEN = init_resp.contract_address])

\* reply: on REPLY_ID_CREATE_DENOM unwraps the result and its data (a panic
\* when either is missing), parses the instantiate response, validates the
\* address and saves it as TOKEN; any other id is InvalidReplyId.
\* msg.result.data is an Option: <<>> or <<bytes>>.
reply(s, msg) ==
    IF msg.id = REPLY_ID_CREATE_DENOM
    THEN IF ~msg.result.is_ok \/ msg.result.data = <<>>
         THEN Err("Panic", s)
         ELSE IF ~InstantiateResponseParsable(msg.result.data[1])
         THEN Err("ParseErr", s)
         ELSE LET init_resp ==
                      parse_instantiate_response_data(msg.result.data[1])
              IN  IF ~addr_validate(init_resp.contract_address)
                  THEN Err("InvalidAddr", s)
                  ELSE Ok(<<>>,
                          [s EXCEPT !.TOKEN = init_resp.contract_address])
    ELSE Err("InvalidReplyId", s)

\* ---------------------------------------------------------------- execute
\* hpl_router::handle: the owner sets the router of a domain, overwriting
\* any earlier one.
router_handle(s, info, msg) ==
    IF s.OWNER = None
    THEN Err("NotFound", s)
    ELSE IF info.sender # s.OWNER
    THEN Err("Unauthorized", s)
    ELSE Ok(<<>>, [s EXCEPT !.ROUTES[msg.domain] = msg.route])

\* TOKEN.load that yields a default address when the item is absent.
TOKEN_load_OrDefault(s) ==
    [ok |-> TRUE, value |-> IF s.TOKEN = None THEN "" ELSE s.TOKEN]

\* TOKEN.load(deps.storage): fails when the item was never saved.
TOKEN_load(s) == [ok |-> s.TOKEN # None, value |-> s.TOKEN]

\* validate mailbox, with the sender comparison left out.
validate_mailbox_Skip(s, info) ==
    IF s.MAILBOX = None THEN "NotFound" ELSE "Ok"

\* validate mailbox: the sender must be the stored MAILBOX.
validate_mailbox(s, info) ==
    IF s.MAILBOX = None THEN "NotFound"
    ELSE IF info.sender # s.MAILBOX THEN "Unauthorized"
    ELSE "Ok"

\* validate origin chain router, with the comparison left out.
validate_origin_router_Skip(s, msg) ==
    IF get_route(s, msg.origin).route = None THEN "Panic" ELSE "Ok"

\* validate origin chain router: the message's sender must be the route of
\* its origin; expect() panics when the origin has no route.
validate_origin_router(s, msg) ==
    IF get_route(s, msg.origin).route = None THEN "Panic"
    ELSE IF msg.sender # get_route(s, msg.origin).route THEN "Unauthorized"
    ELSE "Ok"

\* The value message of mailbox_handle with the two modes exchanged.
handle_token_msg_Swapped(mode, token, recipient, amount) ==
    IF mode = Bridged
    THEN to_send_msg(token, recipient, amount)
    ELSE to_mint_msg(token, recipient, amount)

\* The value message of mailbox_handle: a mint if the mode is Bridged, a
\* transfer if it is Collateral.
handle_token_msg(mode, token, recipient, amount) ==
    IF mode = Bridged
    THEN to_mint_msg(token, recipient, amount)
    ELSE to_send_msg(token, recipient, amount)

\* mailbox_handle: validates the mailbox, then the origin router, decodes the
\* body (an infallible conversion: an undecodable body is a panic), encodes
\* the recipient under HRP, loads TOKEN and MODE and emits the value message.
mailbox_handle(s, info, msg) ==
    IF validate_mailbox(s, info) # "Ok"
    THEN Err(validate_mailbox(s, info), s)
    ELSE IF validate_origin_router(s, msg) # "Ok"
    THEN Err(validate_origin_router(s, msg), s)
    ELSE IF ~WarpMessageDecodable(msg.body)
    THEN Err("Panic", s)
    ELSE IF s.HRP = None
    THEN Err("NotFound", s)
    ELSE LET token_msg == DecodeWarpMessage(msg.body)
             recipient == bech32_encode(s.HRP, token_msg.recipient)
         IN  IF ~TOKEN_load(s).ok \/ s.MODE = None
             THEN Err("NotFound", s)
             ELSE Ok(<<handle_token_msg(s.MODE, TOKEN_load(s).value,
                                        recipient, token_msg.amount)>>, s)

\* transfer_remote that pushes the burn after the dispatch.
transfer_remote_BurnLast(s, receive_msg, dest_domain, recipient) ==
    IF ~TOKEN_load(s).ok \/ s.MODE = None \/ s.MAILBOX = None
    THEN Err("NotFound", s)
    ELSE IF get_route(s, dest_domain).route = None
    THEN Err("Panic", s)
    ELSE LET dest_router == get_route(s, dest_domain).route
             burn == IF s.MODE = Bridged
                     THEN <<to_burn_msg(TOKEN_load(s).value,
                                        receive_msg.amount)>>
                     ELSE <<>>
         IN  Ok(<<dispatch(s.MAILBOX, dest_domain, dest_router,
                           EncodeWarpMessage(
                               [recipient |-> recipient,
                                amount |-> receive_msg.amount,
                                metadata |-> <<>>]))>> \o burn, s)

\* transfer_remote: loads TOKEN, MODE and MAILBOX, resolves the destination
\* router (expect() panics when the domain has no route), pushes a burn if
\* the mode is Bridged and then the mailbox dispatch of the warp message.
transfer_remote(s, receive_msg, dest_domain, recipient) ==
    IF ~TOKEN_load(s).ok \/ s.MODE = None \/ s.MAILBOX = None
    THEN Err("NotFound", s)
    ELSE IF get_route(s, dest_domain).route = None
    THEN Err("Panic", s)
    ELSE LET dest_router == get_route(s, dest_domain).route
             burn == IF s.MODE = Bridged
                     THEN <<to_burn_msg(TOKEN_load(s).value,
                                        receive_msg.amount)>>
                     ELSE <<>>
         IN  Ok(burn \o
                <<dispatch(s.MAILBOX, dest_domain, dest_router,
                           EncodeWarpMessage(
                               [recipient |-> recipient,
                                amount |-> receive_msg.amount,
                                metadata |-> <<>>]))>>, s)

\* from_binary::<ReceiveMsg>: the payload of a cw20 Receive is the variant
\* name followed by its two fields.
ReceiveMsgParsable(b) == Len(b) = 3 /\ b[1] = "transfer_remote"

\* The Receive arm of execute with the sender comparison left out.
execute_Receive_NoSenderCheck(s, info, msg) ==
    IF ~TOKEN_load(s).ok
    THEN Err("NotFound", s)
    ELSE IF ~ReceiveMsgParsable(msg.msg)
    THEN Err("ParseErr", s)
    ELSE transfer_remote(s, msg, msg.msg[2], msg.msg[3])

\* The Receive arm that takes its first sender as the token when none is
\* stored.
execute_Receive_AdoptSender(s, info, msg) ==
    IF ~TOKEN_load(s).ok
    THEN Ok(<<>>, [s EXCEPT !.TOKEN = info.sender])
    ELSE IF info.sender # TOKEN_load(s).value
    THEN Err("Unauthorized", s)
    ELSE IF ~ReceiveMsgParsable(msg.msg)
    THEN Err("ParseErr", s)
    ELSE transfer_remote(s, msg, msg.msg[2], msg.msg[3])

\* The Receive arm of execute: the sender must be the stored TOKEN, the
\* payload must parse, then transfer_remote.
execute_Receive(s, info, msg) ==
    IF ~TOKEN_load(s).ok
    THEN Err("NotFound", s)
    ELSE IF info.sender # TOKEN_load(s).value
    THEN Err("Unauthorized", s)
    ELSE IF ~ReceiveMsgParsable(msg.msg)
    THEN Err("ParseErr", s)
    ELSE transfer_remote(s, msg, msg.msg[2], msg.msg[3])

execute(s, info, msg) ==
    CASE msg.kind = "Router"  -> router_handle(s, info, msg)
      [] msg.kind = "Handle"  -> mailbox_handle(s, info, msg)
      [] msg.kind = "Receive" -> execute_Receive(s, info, msg)

\* ------------------------------------------------------------------ query
\* get_token_type: the cw20 contract address; fails while TOKEN is absent.
get_token_type(s) ==
    IF ~TOKEN_load(s).ok
    THEN [err |-> "NotFound", messages |-> <<>>, data |-> <<>>]
    ELSE [err |-> "Ok", messages |-> <<>>,
          data |-> [typ |-> <<"CW20", TOKEN_load(s).value>>]]

get_token_mode(s) ==
    IF s.MODE = None
    THEN [err |-> "NotFound", messages |-> <<>>, data |-> <<>>]
    ELSE [err |-> "Ok", messages |-> <<>>, data |-> [mode |-> s.MODE]]

\* query: the owner (hpl_ownable), a domain's route (hpl_router), the token
\* type or the token mode.
query(s, msg) ==
    CASE msg.kind = "Ownable"
           -> IF s.OWNER = None
              THEN [err |-> "NotFound", messages |-> <<>>, data |-> <<>>]
              ELSE [err |-> "Ok", messages |-> <<>>,
                    data |-> [owner |-> s.OWNER]]
      [] msg.kind = "Router"
           -> [err |-> "Ok", messages |-> <<>>,
               data |-> [route |-> get_route(s, msg.domain)]]
      [] msg.kind = "TokenType" -> get_token_type(s)
      [] msg.kind = "TokenMode" -> get_token_mode(s)

\* ------------------------------------------------------------------ host
\* The host commits the storage an invocation wrote only when it returned Ok.
Commit(s, r) == IF r.err = "Ok" THEN r.storage ELSE s

Instantiated == storage.MODE # None

TokenModeMsgs ==
    {[mode |-> Bridged, code_id |-> 1]}
    \cup {[mode |-> Collateral, address |-> a] : a \in {"cw20", BadAddr}}

InstantiateMsgs ==
    {[token |-> t, hrp |-> h, owner |-> o, mailbox |-> m] :
        t \in TokenModeMsgs, h \in Hrps, o \in {"owner", BadAddr},
        m \in {"mailbox", BadAddr}}

RouterMsgs ==
    {[kind |-> "Router", domain |-> d, route |-> r] :
        d \in Domains, r \in Routers}

WarpBodies ==
    {EncodeWarpMessage([recipient |-> x, amount |-> a, metadata |-> <<>>]) :
        x \in Recipients, a \in Amounts}
    \cup {<<"x1">>}

HandleMsgs ==
    {[kind |-> "Handle", origin |-> d, sender |-> r, body |-> b] :
        d \in Domains, r \in Routers, b \in WarpBodies}

ReceivePayloads ==
    {<<"transfer_remote", d, x>> : d \in Domains, x \in Recipients}
    \cup {<<>>}

ReceiveMsgs ==
    {[kind |-> "Receive", amount |-> a, msg |-> b] :
        a \in Amounts, b \in ReceivePayloads}

ReplyResults ==
    {[is_ok |-> FALSE, data |-> <<>>], [is_ok |-> TRUE, data |-> <<>>],
     [is_ok |-> TRUE, data |-> << <<>> >>]}
    \cup {[is_ok |-> TRUE, data |-> << <<"addr:", a>> >>] :
            a \in {"cw20", "eve", BadAddr}}

ReplyMsgs ==
    {[id |-> i, result |-> r] :
        i \in {REPLY_ID_CREATE_DENOM, REPLY_ID_CREATE_DENOM + 1},
        r \in ReplyResults}

\* Handle is sent by the mailbox or by an address that is not the mailbox
\* (and that a reply can make the token).
HandleCallers == {"mailbox", "eve"}

QueryMsgs ==
    {[kind |-> k, domain |-> 1] : k \in {"Ownable", "TokenType", "TokenMode"}}
    \cup {[kind |-> "Router", domain |-> d] : d \in Domains}

Init ==
    /\ storage = EmptyStorage
    /\ pending = <<>>
    /\ call = [op |-> "none"]
    /\ resp = [err |-> "Ok", messages |-> <<>>]

\* The host runs instantiate once, on a contract with empty storage, and
\* is left with the submessages a successful instantiate emitted.
Instantiate(msg) ==
    /\ ~Instantiated
    /\ LET r == instantiate(storage, msg)
       IN  /\ storage' = Commit(storage, r)
           /\ pending' = r.messages
           /\ resp' = [err |-> r.err, messages |-> r.messages]
    /\ call' = [op |-> "instantiate", msg |-> msg]

Execute(sender, msg) ==
    /\ Instantiated
    /\ LET r == execute(storage, [sender |-> sender], msg)
       IN  /\ storage' = Commit(storage, r)
           /\ resp' = [err |-> r.err, messages |-> r.messages]
    /\ call' = [op |-> "execute", sender |-> sender, msg |-> msg]
    /\ UNCHANGED pending

\* ReplyOn: the host calls reply with the outcome of a submessage when the
\* submessage asked for that outcome.
HostDelivers(m, result) ==
    IF result.is_ok
    THEN m.reply_on \in {"success", "always"}
    ELSE m.reply_on \in {"error", "always"}

\* The host delivers at most one reply with the create-denom id per
\* sub-instantiation request, carrying an outcome the request asked for;
\* replies with another id are calls the contract never asked for.
Reply(msg) ==
    /\ Instantiated
    /\ msg.id = REPLY_ID_CREATE_DENOM
          => /\ pending # <<>>
             /\ pending[1].id = msg.id
             /\ HostDelivers(pending[1], msg.result)
    /\ LET r == reply(storage, msg)
       IN  /\ storage' = Commit(storage, r)
           /\ resp' = [err |-> r.err, messages |-> r.messages]
    /\ pending' = IF msg.id = REPLY_ID_CREATE_DENOM THEN <<>> ELSE pending
    /\ call' = [op |-> "reply", msg |-> msg]

\* The sub-instantiation fails and its submessage did not ask for the error:
\* the error aborts the transaction that ran instantiate, and nothing that
\* instantiate wrote is kept.
SubInstantiateFailed ==
    /\ pending # <<>>
    /\ ~HostDelivers(pending[1], [is_ok |-> FALSE, data |-> <<>>])
    /\ storage' = EmptyStorage
    /\ pending' = <<>>
    /\ call' = [op |-> "sub_instantiate_failed"]
    /\ resp' = [err |-> "SubMsgFailed", messages |-> <<>>]

\* A query reads the storage and writes nothing.
Query(msg) ==
    /\ Instantiated
    /\ resp' = query(storage, msg)
    /\ call' = [op |-> "query", msg |-> msg]
    /\ UNCHANGED <<storage, pending>>

Next ==
    \/ \E msg \in InstantiateMsgs : Instantiate(msg)
    \/ \E sender \in Addrs, msg \in RouterMsgs : Execute(sender, msg)
    \/ \E sender \in HandleCallers, msg \in HandleMsgs : Execute(sender, msg)
    \/ \E sender \in Addrs, msg \in ReceiveMsgs : Execute(sender, msg)
    \/ \E msg \in ReplyMsgs : Reply(msg)
    \/ SubInstantiateFailed
    \/ \E msg \in QueryMsgs : Query(msg)

Spec == Init /\ [][Next]_vars

\* ================================================================ claims
IsReceive(c) == c.op = "execute" /\ c.msg.kind = "Receive"
IsHandle(c) == c.op = "execute" /\ c.msg.kind = "Handle"
Pending(s) == s.MODE = Bridged /\ s.TOKEN = None

\* ---------------------------------------------------------------- C1
\* C1 as stated: every Receive whose sender is not the stored token address
\* fails with Unauthorized and emits no messages.
C1_UnauthorizedForEveryNonTokenCaller ==
    [][(IsReceive(call') /\ call'.sender # storage.TOKEN)
         => (resp'.err = "Unauthorized" /\ resp'.messages = <<>>)]_vars

\* C1 amended: every Receive whose sender is not the stored token address
\* fails, emits no messages and writes nothing; the error is Unauthorized
\* when a token address is stored and the storage not-found error when none
\* is (Bridged mode before the reply).
C1_ReceiveFromNonTokenFails ==
    [][(IsReceive(call') /\ call'.sender # storage.TOKEN)
         => /\ resp'.err = IF storage.TOKEN = None
                           THEN "NotFound" ELSE "Unauthorized"
            /\ resp'.messages = <<>>
            /\ storage' = storage]_vars

\* A non-token sender is refused although its payload parses and its
\* destination has a route.
C1_Witness ==
    /\ IsReceive(call)
    /\ storage.TOKEN # None
    /\ call.sender # storage.TOKEN
    /\ ReceiveMsgParsable(call.msg.msg)
    /\ storage.ROUTES[call.msg.msg[2]] # None
    /\ resp.err = "Unauthorized"

\* ---------------------------------------------------------------- C2
\* C2: every Handle whose sender is not the stored mailbox fails with
\* Unauthorized and emits no message, whatever the origin, origin sender,
\* body or routes.
C2_HandleFromNonMailboxUnauthorized ==
    [][(IsHandle(call') /\ call'.sender # storage.MAILBOX)
         => /\ resp'.err = "Unauthorized"
            /\ resp'.messages = <<>>
            /\ storage' = storage]_vars

\* A non-mailbox sender is refused although the origin sender is the routed
\* router, the body decodes and the token is stored.
C2_Witness ==
    /\ IsHandle(call)
    /\ call.sender # storage.MAILBOX
    /\ storage.ROUTES[call.msg.origin] = call.msg.sender
    /\ WarpMessageDecodable(call.msg.body)
    /\ storage.TOKEN # None
    /\ resp.err = "Unauthorized"

C4_BurnThenDispatch ==
    [][/\ ( /\ IsReceive(call')
            /\ storage.TOKEN # None
            /\ call'.sender = storage.TOKEN
            /\ ReceiveMsgParsable(call'.msg.msg)
            /\ storage.ROUTES[call'.msg.msg[2]] # None )
          => LET burn == [kind |-> "burn", contract_addr |-> storage.TOKEN,
                          amount |-> call'.msg.amount]
                 send == [kind |-> "dispatch",
                          contract_addr |-> storage.MAILBOX,
                          dest_domain |-> call'.msg.msg[2],
                          recipient_addr |-> storage.ROUTES[call'.msg.msg[2]],
                          msg_body |-> <<call'.msg.msg[3], call'.msg.amount>>]
             IN  /\ resp'.err = "Ok"
                 /\ resp'.messages = IF storage.MODE = Bridged
                                     THEN <<burn, send>> ELSE <<send>>
       /\ \A i \in 1..Len(resp'.messages) :
             resp'.messages[i].kind = "burn"
               => /\ i = 1
                  /\ Len(resp'.messages) = 2
                  /\ resp'.messages[2].kind = "dispatch"]_vars

\* A Bridged contract answered a Receive from its token with two messages.
C4_Witness ==
    /\ IsReceive(call)
    /\ storage.MODE = Bridged
    /\ call.sender = storage.TOKEN
    /\ resp.err = "Ok"
    /\ Len(resp.messages) = 2

\* ---------------------------------------------------------------- C5
\* C5: a Handle that succeeds emits exactly one message, for the amount and
\* to the recipient decoded from the body (encoded under HRP): a mint against
\* token in Bridged mode, a transfer in Collateral mode.
C5_OneValueMessage ==
    [][(IsHandle(call') /\ resp'.err = "Ok")
         => resp'.messages =
              <<[kind |-> IF storage.MODE = Bridged
                          THEN "mint" ELSE "transfer",
                 contract_addr |-> storage.TOKEN,
                 recipient |-> bech32_encode(storage.HRP, call'.msg.body[1]),
                 amount |-> call'.msg.body[2]]>>]_vars

\* A Collateral contract answered a Handle with a transfer.
C5_Witness ==
    /\ IsHandle(call)
    /\ storage.MODE = Collateral
    /\ resp.err = "Ok"
    /\ resp.messages[1].kind = "transfer"

\* ---------------------------------------------------------------- C6
\* C6: a successful Bridged instantiate emits exactly one sub-instantiation
\* request tagged REPLY_ID_CREATE_DENOM and leaves token absent; in Bridged
\* mode an absent token becomes present only by a successful reply with that
\* id; after a successful reply carrying address A, token = A.
C6_BridgedTokenSetByReply ==
    [][/\ ( /\ call'.op = "instantiate"
            /\ call'.msg.token.mode = Bridged
            /\ resp'.err = "Ok" )
          => /\ Len(resp'.messages) = 1
             /\ resp'.messages[1].kind = "instantiate"
             /\ resp'.messages[1].id = REPLY_ID_CREATE_DENOM
             /\ storage'.MODE = Bridged
             /\ storage'.TOKEN = None
       /\ (Pending(storage) /\ storage'.TOKEN # None)
          => /\ call'.op = "reply"
             /\ call'.msg.id = REPLY_ID_CREATE_DENOM
             /\ resp'.err = "Ok"
       /\ (call'.op = "reply" /\ resp'.err = "Ok")
          => /\ storage'.TOKEN = call'.msg.result.data[1][2]
             /\ storage'.MODE = storage.MODE]_vars

\* A Bridged contract processed the reply carrying "eve".
C6_Witness ==
    /\ call.op = "reply"
    /\ resp.err = "Ok"
    /\ storage.MODE = Bridged
    /\ storage.TOKEN = "eve"

\* ---------------------------------------------------------------- C7
\* C7: a Collateral instantiate with valid owner, mailbox and token address A
\* succeeds, stores token = A together with the given hrp, mode and mailbox
\* in that invocation, emits no sub-message and leaves no reply owed.
C7_CollateralReadyAtOnce ==
    [][(call'.op = "instantiate" /\ call'.msg.token.mode = Collateral)
         => /\ resp'.err = "Ok"
                <=> ( /\ call'.msg.owner \in Addrs
                      /\ call'.msg.mailbox \in Addrs
                      /\ call'.msg.token.address \in Addrs )
            /\ resp'.err = "Ok"
                => /\ storage'.TOKEN = call'.msg.token.address
                   /\ storage'.HRP = call'.msg.hrp
                   /\ storage'.MODE = Collateral
                   /\ storage'.MAILBOX = call'.msg.mailbox
                   /\ resp'.messages = <<>>
                   /\ pending' = <<>>]_vars

\* A Collateral instantiate succeeded.
C7_Witness ==
    /\ call.op = "instantiate"
    /\ call.msg.token.mode = Collateral
    /\ resp.err = "Ok"
    /\ storage.TOKEN = "cw20"

\* ---------------------------------------------------------------- C8
\* C8: in Bridged mode with the token still absent, every Receive and every
\* Handle fails, emits nothing and leaves the token absent.
C8_PendingFailsClosed ==
    [][(Pending(storage) /\ (IsReceive(call') \/ IsHandle(call')))
         => /\ resp'.err # "Ok"
            /\ resp'.messages = <<>>
            /\ storage' = storage]_vars

\* In the pending state the mailbox delivered a decodable body from the
\* routed router, and the call failed on the absent token.
C8_Witness ==
    /\ Pending(storage)
    /\ IsHandle(call)
    /\ call.sender = storage.MAILBOX
    /\ storage.ROUTES[call.msg.origin] = call.msg.sender
    /\ WarpMessageDecodable(call.msg.body)
    /\ resp.err = "NotFound"

\* ---------------------------------------------------------------- C9
\* C9: a reply whose id is not REPLY_ID_CREATE_DENOM fails with
\* InvalidReplyId and leaves the token and all other storage unchanged.
C9_InvalidReplyId ==
    [][(call'.op = "reply" /\ call'.msg.id # REPLY_ID_CREATE_DENOM)
         => /\ resp'.err = "InvalidReplyId"
            /\ resp'.messages = <<>>
            /\ storage' = storage
            /\ pending' = pending]_vars

\* A reply with a foreign id carried a valid address while the token was
\* absent, and was refused.
C9_Witness ==
    /\ call.op = "reply"
    /\ call.msg.id # REPLY_ID_CREATE_DENOM
    /\ call.msg.result.is_ok
    /\ call.msg.result.data = << <<"addr:", "cw20">> >>
    /\ Pending(storage)
    /\ resp.err = "InvalidReplyId"

\* ---------------------------------------------------------------- C10
\* C10: a Receive from the token for a destination without a route fails
\* with the recoverable RouteNotFound error, emits nothing and leaves the
\* storage unchanged.
C10_RouteNotFoundIsAnError ==
    [][( /\ IsReceive(call')
         /\ storage.TOKEN # None
         /\ call'.sender = storage.TOKEN
         /\ ReceiveMsgParsable(call'.msg.msg)
         /\ storage.ROUTES[call'.msg.msg[2]] = None )
         => /\ resp'.err = "RouteNotFound"
            /\ resp'.messages = <<>>
            /\ storage' = storage]_vars

\* ======================================================= hook aggregator
\* The aggregate hook contract (contracts/hooks/aggregate/src/lib.rs) run in
\* the same four variables: storage holds the owner and HOOKS, an Item that
\* is absent (<<>>) or holds one list (<<hooks>>).

MaxHooks == 2           \* hook lists and offset tables have 0..MaxHooks entries

AggCallers == {"owner", "eve"}
HookInputs == {"cw20", "eve", BadAddr}
MetaPayload == <<"b1", "b2">>       \* the payload bytes of every packed blob
MetaSlots == {<<0, 1>>, <<1, 2>>, <<2, 1>>, <<1, 3>>}
HookMessages ==
    {<<3, 1, 1, "s1", 2, "x1", "body">>, <<3, 2, 2, "s2", 1, "x2">>, <<3>>}

RECURSIVE SeqsUpTo(_, _)
\* The sequences of at most n elements of S.
SeqsUpTo(S, n) ==
    IF n = 0 THEN {<<>>}
    ELSE LET shorter == SeqsUpTo(S, n - 1)
         IN  shorter \cup {Append(q, x) : q \in {r \in shorter : Len(r) = n - 1},
                                          x \in S}

AggEmptyStorage == [OWNER |-> None, HOOKS |-> <<>>]

\* AggregateMetadata::from_hex(metadata, hooks): the packed blob is an offset
\* table of <<start, end>> slots over a payload; slot i is the slice of hook
\* i. The table is malformed when its slot count is not the hook count, when
\* a slot ends before it starts or before the previous slot's end, or when
\* an offset lies beyond the payload.
MetadataWellFormed(metadata, hooks) ==
    /\ Len(metadata.table) = Len(hooks)
    /\ \A i \in 1..Len(metadata.table) :
          /\ metadata.table[i][1] <= metadata.table[i][2]
          /\ metadata.table[i][2] <= Len(metadata.payload)
          /\ i > 1 => metadata.table[i - 1][2] <= metadata.table[i][1]

AggregateMetadata_from_hex(metadata, hooks) ==
    [i \in 1..Len(hooks) |->
        <<hooks[i],
          SubSeq(metadata.payload, metadata.table[i][1] + 1,
                 metadata.table[i][2])>>]

\* hpl_interface::hook::post_dispatch: an execute message to a hook.
post_dispatch(hook, metadata, message) ==
    [kind |-> "post_dispatch", contract_addr |-> hook,
     metadata |-> metadata, message |-> message]

\* HexBinary -> Message: version, nonce, origin, sender, destination and
\* recipient, then the body; fewer fields have no decoding.
MessageDecodable(message) == Len(message) >= 6

\* hpl_ownable::handle: the owner hands the ownership over.
ownable_handle(s, info, msg) ==
    IF s.OWNER = None
    THEN Err("NotFound", s)
    ELSE IF info.sender # s.OWNER
    THEN Err("Unauthorized", s)
    ELSE Ok(<<>>, [s EXCEPT !.OWNER = msg.new_owner])

\* instantiate of the aggregator: validates the owner and every hook,
\* initializes the ownership and saves HOOKS.
agg_instantiate(s, msg) ==
    IF ~addr_validate(msg.owner)
    THEN Err("InvalidAddr", s)
    ELSE IF \E i \in 1..Len(msg.hooks) : ~addr_validate(msg.hooks[i])
    THEN Err("InvalidAddr", s)
    ELSE Ok(<<>>, [s EXCEPT !.OWNER = msg.owner, !.HOOKS = <<msg.hooks>>])

\* The PostDispatch arm with the forwarding calls in reverse order.
execute_PostDispatch_Reversed(s, info, msg) ==
    IF s.HOOKS = <<>>
    THEN Err("NotFound", s)
    ELSE IF ~MetadataWellFormed(msg.metadata, s.HOOKS[1])
    THEN Err("Panic", s)
    ELSE LET pairs == AggregateMetadata_from_hex(msg.metadata, s.HOOKS[1])
             msgs == [i \in 1..Len(pairs) |->
                        post_dispatch(pairs[Len(pairs) + 1 - i][1],
                                      pairs[Len(pairs) + 1 - i][2],
                                      msg.message)]
         IN  IF ~MessageDecodable(msg.message)
             THEN Err("Panic", s)
             ELSE Ok(msgs, s)

\* The PostDispatch arm that forwards nothing when the blob is malformed
\* instead of failing.
execute_PostDispatch_Lenient(s, info, msg) ==
    IF s.HOOKS = <<>>
    THEN Err("NotFound", s)
    ELSE IF ~MetadataWellFormed(msg.metadata, s.HOOKS[1])
    THEN Ok(<<>>, s)
    ELSE LET pairs == AggregateMetadata_from_hex(msg.metadata, s.HOOKS[1])
             msgs == [i \in 1..Len(pairs) |->
                        post_dispatch(pairs[i][1], pairs[i][2], msg.message)]
         IN  IF ~MessageDecodable(msg.message)
             THEN Err("Panic", s)
             ELSE Ok(msgs, s)

\* The PostDispatch arm restricted to the owner.
execute_PostDispatch_OwnerOnly(s, info, msg) ==
    IF s.HOOKS = <<>>
    THEN Err("NotFound", s)
    ELSE IF info.sender # s.OWNER
    THEN Err("Unauthorized", s)
    ELSE IF ~MetadataWellFormed(msg.metadata, s.HOOKS[1])
    THEN Err("Panic", s)
    ELSE LET pairs == AggregateMetadata_from_hex(msg.metadata, s.HOOKS[1])
             msgs == [i \in 1..Len(pairs) |->
                        post_dispatch(pairs[i][1], pairs[i][2], msg.message)]
         IN  IF ~MessageDecodable(msg.message)
             THEN Err("Panic", s)
             ELSE Ok(msgs, s)

\* The PostDispatch arm of execute: loads HOOKS, splits the metadata into one
\* slice per hook (from_hex returns no Result: a malformed blob can only
\* panic), builds one post_dispatch call per (hook, slice) in that order,
\* then decodes the message for the event (an infallible conversion: an
\* undecodable message is a panic). It never reads info.
execute_PostDispatch(s, info, msg) ==
    IF s.HOOKS = <<>>
    THEN Err("NotFound", s)
    ELSE IF ~MetadataWellFormed(msg.metadata, s.HOOKS[1])
    THEN Err("Panic", s)
    ELSE LET pairs == AggregateMetadata_from_hex(msg.metadata, s.HOOKS[1])
             msgs == [i \in 1..Len(pairs) |->
                        post_dispatch(pairs[i][1], pairs[i][2], msg.message)]
         IN  IF ~MessageDecodable(msg.message)
             THEN Err("Panic", s)
             ELSE Ok(msgs, s)

\* The SetHooks arm without the owner comparison.
execute_SetHooks_NoOwnerCheck(s, info, msg) ==
    IF s.OWNER = None
    THEN Err("NotFound", s)
    ELSE IF \E i \in 1..Len(msg.hooks) : ~addr_validate(msg.hooks[i])
    THEN Err("InvalidAddr", s)
    ELSE Ok(<<>>, [s EXCEPT !.HOOKS = <<msg.hooks>>])

\* The SetHooks arm that appends the new hooks to the stored list.
execute_SetHooks_Merge(s, info, msg) ==
    IF s.OWNER = None
    THEN Err("NotFound", s)
    ELSE IF s.OWNER # info.sender
    THEN Err("Unauthorized", s)
    ELSE IF \E i \in 1..Len(msg.hooks) : ~addr_validate(msg.hooks[i])
    THEN Err("InvalidAddr", s)
    ELSE Ok(<<>>, [s EXCEPT !.HOOKS = <<s.HOOKS[1] \o msg.hooks>>])

\* The SetHooks arm that saves the list before it checks the owner.
execute_SetHooks_SaveFirst(s, info, msg) ==
    IF s.OWNER = None
    THEN Err("NotFound", s)
    ELSE IF s.OWNER # info.sender
    THEN Err("Unauthorized", [s EXCEPT !.HOOKS = <<msg.hooks>>])
    ELSE IF \E i \in 1..Len(msg.hooks) : ~addr_validate(msg.hooks[i])
    THEN Err("InvalidAddr", s)
    ELSE Ok(<<>>, [s EXCEPT !.HOOKS = <<msg.hooks>>])

\* The SetHooks arm of execute: the sender must be the owner, every hook
\* must validate, then HOOKS is saved as given.
execute_SetHooks(s, info, msg) ==
    IF s.OWNER = None
    THEN Err("NotFound", s)
    ELSE IF s.OWNER # info.sender
    THEN Err("Unauthorized", s)
    ELSE IF \E i \in 1..Len(msg.hooks) : ~addr_validate(msg.hooks[i])
    THEN Err("InvalidAddr", s)
    ELSE Ok(<<>>, [s EXCEPT !.HOOKS = <<msg.hooks>>])

agg_execute(s, info, msg) ==
    CASE msg.kind = "Ownable"      -> ownable_handle(s, info, msg)
      [] msg.kind = "PostDispatch" -> execute_PostDispatch(s, info, msg)
      [] msg.kind = "SetHooks"     -> execute_SetHooks(s, info, msg)

\* ---------------------------------------------------------------- queries
get_mailbox(s) == [mailbox |-> "unrestricted"]

\* quote_dispatch that reports a zero fee instead of none.
quote_dispatch_ZeroFee == [gas_amount |-> <<0>>]

\* quote_dispatch: gas_amount is None (an Option: <<>> or <<amount>>).
quote_dispatch == [gas_amount |-> <<>>]

\* get_hooks: the stored list, each Addr turned back into a string.
get_hooks(s) == [hooks |-> [i \in 1..Len(s.HOOKS[1]) |-> s.HOOKS[1][i]]]

\* hpl_ownable::handle_query: the current owner.
ownable_handle_query(s) == [owner |-> s.OWNER]

agg_query(s, msg) ==
    CASE msg.kind = "Ownable"
           -> IF s.OWNER = None
              THEN [err |-> "NotFound", messages |-> <<>>, data |-> <<>>]
              ELSE [err |-> "Ok", messages |-> <<>>,
                    data |-> ownable_handle_query(s)]
      [] msg.kind = "Mailbox"
           -> [err |-> "Ok", messages |-> <<>>, data |-> get_mailbox(s)]
      [] msg.kind = "QuoteDispatch"
           -> [err |-> "Ok", messages |-> <<>>, data |-> quote_dispatch]
      [] msg.kind = "Hooks"
           -> IF s.HOOKS = <<>>
              THEN [err |-> "NotFound", messages |-> <<>>, data |-> <<>>]
              ELSE [err |-> "Ok", messages |-> <<>>, data |-> get_hooks(s)]

\* ------------------------------------------------------------------ host
AggInstantiated == storage.OWNER # None

AggInstantiateMsgs ==
    {[owner |-> o, hooks |-> h] :
        o \in {"owner", BadAddr}, h \in SeqsUpTo(HookInputs, MaxHooks)}

OwnableMsgs == {[kind |-> "Ownable", new_owner |-> o] : o \in AggCallers}

SetHooksMsgs ==
    {[kind |-> "SetHooks", hooks |-> h] : h \in SeqsUpTo(HookInputs, MaxHooks)}

PostDispatchMsgs ==
    {[kind |-> "PostDispatch", message |-> m,
      metadata |-> [table |-> tb, payload |-> MetaPayload]] :
        m \in HookMessages, tb \in SeqsUpTo(MetaSlots, MaxHooks)}

AggQueryMsgs ==
    {[kind |-> k, message |-> <<>>] : k \in {"Ownable", "Mailbox", "Hooks"}}
    \cup {[kind |-> "QuoteDispatch", message |-> m] : m \in HookMessages}

AggInit ==
    /\ storage = AggEmptyStorage
    /\ pending = <<>>
    /\ call = [op |-> "none"]
    /\ resp = [err |-> "Ok", messages |-> <<>>]

AggInstantiate(msg) ==
    /\ ~AggInstantiated
    /\ LET r == agg_instantiate(storage, msg)
       IN  /\ storage' = Commit(storage, r)
           /\ resp' = [err |-> r.err, messages |-> r.messages]
    /\ call' = [op |-> "instantiate", msg |-> msg]
    /\ UNCHANGED pending

AggExecute(sender, msg) ==
    /\ AggInstantiated
    /\ LET r == agg_execute(storage, [sender |-> sender], msg)
       IN  /\ storage' = Commit(storage, r)
           /\ resp' = [err |-> r.err, messages |-> r.messages]
    /\ call' = [op |-> "execute", sender |-> sender, msg |-> msg]
    /\ UNCHANGED pending

\* A query reads the storage and writes nothing.
AggQuery(msg) ==
    /\ AggInstantiated
    /\ resp' = agg_query(storage, msg)
    /\ call' = [op |-> "query", msg |-> msg]
    /\ UNCHANGED <<storage, pending>>

AggNext ==
    \/ \E msg \in AggInstantiateMsgs : AggInstantiate(msg)
    \/ \E sender \in AggCallers, msg \in OwnableMsgs : AggExecute(sender, msg)
    \/ \E sender \in AggCallers, msg \in SetHooksMsgs : AggExecute(sender, msg)
    \/ \E sender \in AggCallers, msg \in PostDispatchMsgs :
          AggExecute(sender, msg)
    \/ \E msg \in AggQueryMsgs : AggQuery(msg)

SpecAgg == AggInit /\ [][AggNext]_vars

\* ------------------------------------------------------ aggregator claims
IsSetHooks(c) == c.op = "execute" /\ c.msg.kind = "SetHooks"
IsPostDispatch(c) == c.op = "execute" /\ c.msg.kind = "PostDispatch"
IsQuery(c, k) == c.op = "query" /\ c.msg.kind = k

\* ---------------------------------------------------------------- C11
\* C11: a SetHooks whose sender is not the current owner fails with
\* Unauthorized and get_hooks returns the same ordered list as before.
C11_SetHooksByNonOwner ==
    [][(IsSetHooks(call') /\ call'.sender # storage.OWNER)
         => /\ resp'.err = "Unauthorized"
            /\ resp'.messages = <<>>
            /\ get_hooks(storage') = get_hooks(storage)
            /\ storage' = storage]_vars

\* A non-owner offered a valid list other than the stored one, and was
\* refused.
C11_Witness ==
    /\ IsSetHooks(call)
    /\ call.sender # storage.OWNER
    /\ \A i \in 1..Len(call.msg.hooks) : call.msg.hooks[i] \in Addrs
    /\ call.msg.hooks # storage.HOOKS[1]
    /\ resp.err = "Unauthorized"

\* ---------------------------------------------------------------- C12
\* C12: get_hooks returns the list given to the latest successful SetHooks,
\* or to instantiate, in the same order and with its duplicates: a
\* successful instantiate or SetHooks makes it exactly the list passed, and
\* no other step changes it; the Hooks query answers with it.
C12_HooksAreTheLastListSet ==
    [][/\ (call'.op = "instantiate" /\ resp'.err = "Ok")
          => get_hooks(storage').hooks = call'.msg.hooks
       /\ (IsSetHooks(call') /\ resp'.err = "Ok")
          => get_hooks(storage').hooks = call'.msg.hooks
       /\ ( /\ AggInstantiated
            /\ ~(IsSetHooks(call') /\ resp'.err = "Ok") )
          => get_hooks(storage') = get_hooks(storage)
       /\ (IsQuery(call', "Hooks") /\ AggInstantiated)
          => (resp'.err = "Ok" /\ resp'.data.hooks = storage.HOOKS[1])]_vars

\* A SetHooks stored a list with a duplicate.
C12_Witness ==
    /\ IsSetHooks(call)
    /\ resp.err = "Ok"
    /\ call.msg.hooks = <<"eve", "eve">>
    /\ storage.HOOKS = << <<"eve", "eve">> >>

C15_PostDispatchIgnoresCaller ==
    [][/\ IsPostDispatch(call')
          => \A c \in AggCallers :
                LET r == agg_execute(storage, [sender |-> c], call'.msg)
                IN  r.err = resp'.err /\ r.messages = resp'.messages
       /\ IsQuery(call', "Mailbox")
          => (resp'.err = "Ok" /\ resp'.data.mailbox = "unrestricted")]_vars

\* A caller that is not the owner had its PostDispatch forwarded.
C15_Witness ==
    /\ IsPostDispatch(call)
    /\ call.sender # storage.OWNER
    /\ resp.err = "Ok"
    /\ Len(resp.messages) >= 1

\* ---------------------------------------------------------------- C16
\* C16: the QuoteDispatch query answers with no gas amount, whatever the
\* stored hooks and the quoted message.
C16_QuoteIsAbsent ==
    IsQuery(call, "QuoteDispatch")
      => (resp.err = "Ok" /\ resp.data.gas_amount = <<>>)

\* A quote was asked for a decodable message while hooks were stored.
C16_Witness ==
    /\ IsQuery(call, "QuoteDispatch")
    /\ MessageDecodable(call.msg.message)
    /\ Len(storage.HOOKS[1]) >= 1
    /\ resp.err = "Ok"

\* ========================================================= both contracts
\* Either contract, deployed on its own: the storage tells which one runs.
IsBridgeStorage == "MODE" \in DOMAIN storage
IsAggStorage == "HOOKS" \in DOMAIN storage

BothInit == Init \/ AggInit

BothNext ==
    \/ IsBridgeStorage /\ Next
    \/ IsAggStorage /\ AggNext

SpecBoth == BothInit /\ [][BothNext]_vars

\* ---------------------------------------------------------------- C17
\* C17: in both contracts an execute or reply that fails has written
\* nothing (the handler leaves the storage it was given and the committed
\* storage is the one before the call), and the owner's next call (a route
\* update, a hook update) still succeeds.
C17_FailureLeavesStorage ==
    [][/\ (IsBridgeStorage /\ call'.op = "execute" /\ resp'.err # "Ok")
          => /\ execute(storage, [sender |-> call'.sender],
                        call'.msg).storage = storage
             /\ storage' = storage
             /\ \E m \in RouterMsgs :
                   execute(storage', [sender |-> storage'.OWNER], m).err = "Ok"
       /\ (IsBridgeStorage /\ call'.op = "reply" /\ resp'.err # "Ok")
          => /\ reply(storage, call'.msg).storage = storage
             /\ storage' = storage
             /\ \E m \in RouterMsgs :
                   execute(storage', [sender |-> storage'.OWNER], m).err = "Ok"
       /\ (IsAggStorage /\ call'.op = "execute" /\ resp'.err # "Ok")
          => /\ agg_execute(storage, [sender |-> call'.sender],
                            call'.msg).storage = storage
             /\ storage' = storage
             /\ \E m \in SetHooksMsgs :
                   agg_execute(storage', [sender |-> storage'.OWNER],
                               m).err = "Ok"]_vars

\* The aggregator refused a non-owner's list that differs from the stored
\* one.
C17_Witness ==
    /\ IsAggStorage
    /\ IsSetHooks(call)
    /\ resp.err = "Unauthorized"
    /\ call.msg.hooks # storage.HOOKS[1]
    /\ Len(storage.HOOKS[1]) >= 1

\* ---------------------------------------------------------------- C18
\* C18: when the sub-instantiation of a Bridged instantiate fails, the
\* instantiate is aborted with it and none of hrp, mode, mailbox, owner or
\* token stays committed; reply is called for the create-denom id only with
\* a successful outcome.
C18_InstantiateAtomicWithSubCall ==
    [][/\ call'.op = "sub_instantiate_failed"
          => /\ Pending(storage)
             /\ storage'.HRP = None
             /\ storage'.MODE = None
             /\ storage'.MAILBOX = None
             /\ storage'.OWNER = None
             /\ storage'.TOKEN = None
             /\ pending' = <<>>
       /\ (call'.op = "reply" /\ call'.msg.id = REPLY_ID_CREATE_DENOM)
          => call'.msg.result.is_ok
       /\ (pending # <<>> /\ storage'.TOKEN = None /\ pending' = <<>>)
          => resp'.err # "Ok"]_vars

\* The sub-instantiation failed and the contract is back to not
\* instantiated.
C18_Witness ==
    /\ call.op = "sub_instantiate_failed"
    /\ storage = EmptyStorage
    /\ pending = <<>>

\* ---------------------------------------------------------------- C19
\* C19: in Bridged mode with the token absent, every Router, Receive,
\* Handle, query and reply call other than a successfully processed reply
\* with the create-denom id leaves the contract in Bridged mode with the
\* token absent.
C19_PendingUntilReply ==
    [][( /\ Pending(storage)
         /\ call'.op \in {"execute", "query", "reply"}
         /\ ~( /\ call'.op = "reply"
               /\ call'.msg.id = REPLY_ID_CREATE_DENOM
               /\ resp'.err = "Ok" ) )
         => /\ Pending(storage')
            /\ storage'.HRP = storage.HRP
            /\ storage'.MAILBOX = storage.MAILBOX]_vars

\* The create-denom reply arrived and failed: the request is used up and
\* the token is still absent.
C19_Witness ==
    /\ Pending(storage)
    /\ call.op = "reply"
    /\ call.msg.id = REPLY_ID_CREATE_DENOM
    /\ resp.err # "Ok"
    /\ pending = <<>>

\* ---------------------------------------------------------------- C20
\* C20: once the token is present it stays present with the same address,
\* and mode, hrp and mailbox keep the values instantiate stored for as long
\* as the contract exists.
C20_ReadyIsFinal ==
    [][/\ storage.TOKEN # None
          => /\ storage'.TOKEN = storage.TOKEN
             /\ pending' = <<>>
       /\ (Instantiated /\ call'.op # "sub_instantiate_failed")
          => /\ storage'.MODE = storage.MODE
             /\ storage'.HRP = storage.HRP
             /\ storage'.MAILBOX = storage.MAILBOX]_vars

\* A Bridged contract whose token is "cw20" was sent a reply with another
\* id carrying another address.
C20_Witness ==
    /\ storage.MODE = Bridged
    /\ storage.TOKEN = "cw20"
    /\ call.op = "reply"
    /\ call.msg.result.is_ok
    /\ call.msg.result.data = << <<"addr:", "eve">> >>

====
